---------------------------- MODULE Spec2Model ----------------------------
(***************************************************************************)
(* Wire codec of the peer-to-peer network messages                         *)
(* (src/src/network/message.rs, src/src/network/message_network.rs).       *)
(*                                                                         *)
(* Representation.                                                         *)
(*   - a byte is a number 0..255; a buffer is a sequence of bytes;         *)
(*   - a str/String is the sequence of its Unicode scalar values, and its  *)
(*     len() / as_bytes() are those of its UTF-8 form (Utf8);              *)
(*   - a u32 is <<hi, lo>> and a u64 is <<w3, w2, w1, w0>>, 16-bit limbs   *)
(*     written most significant first as in a hexadecimal literal, so      *)
(*     that the full 32- and 64-bit ranges are representable;              *)
(*   - a reader (io::Read over a slice, io::Cursor) is a buffer and a      *)
(*     position; a decoder returns Ok(value, new position) or Err(error).  *)
(***************************************************************************)
EXTENDS Integers, Sequences, FiniteSets, TLC

VARIABLES
    pc,       \* position of the scenario
    sent,     \* the RawNetworkMessage the sender encodes (NoMsg: crafted bytes)
    orig,     \* the bytes as first put on the wire
    wire,     \* the bytes the receiver reads
    tamper,   \* what was done to orig to obtain wire
    res,      \* result of deserialize_partial::<RawNetworkMessage>(wire)
    rewire,   \* result of re-encoding the decoded message
    text,     \* argument of CommandString::try_from
    cs,       \* result of CommandString::try_from(text)
    csbytes,  \* result of encoding a CommandString
    csdec,    \* result of decoding a CommandString
    rreason,  \* the RejectReason encoded
    rbytes,   \* result of encoding a RejectReason
    rdec      \* result of decoding a RejectReason

vars == <<pc, sent, orig, wire, tamper, res, rewire, text, cs, csbytes, csdec,
         rreason, rbytes, rdec>>

envVars == <<sent, orig, wire, tamper, res, rewire>>
cmdVars == <<text, cs, csbytes, csdec>>
rejVars == <<rreason, rbytes, rdec>>

---------------------------------------------------------------------------
(* Bounds of the model.                                                    *)

\* longest text handed to try_from, in characters
MaxTextLen == 13
\* longest freely mixed character / byte sequence
MaxMixLen == 2
\* most headers in a headers message
MaxHeaders == 2
\* most unrelated bytes appended after a message
MaxTrailing == 2

---------------------------------------------------------------------------
(* Sequences and bytes.                                                    *)

Rep(x, n) == [i \in 1..n |-> x]

RECURSIVE Concat(_)
Concat(ss) == IF ss = <<>> THEN <<>> ELSE Head(ss) \o Concat(Tail(ss))

Take(s, n) == SubSeq(s, 1, n)
Drop(s, n) == SubSeq(s, n + 1, Len(s))

\* all sequences over S of length 0..n
SeqsUpTo(S, n) == UNION { [1..k -> S] : k \in 0..n }

---------------------------------------------------------------------------
(* Results.                                                                *)

NoErr == [type |-> "none"]
Ok(v, p) == [ok |-> TRUE, val |-> v, pos |-> p, err |-> NoErr]
Err(e) == [ok |-> FALSE, val |-> <<>>, pos |-> 0, err |-> e]

\* io::ErrorKind::UnexpectedEof from read_exact on a short reader
IoEof == [type |-> "Io", what |-> "UnexpectedEof"]
ParseFailed(s) == [type |-> "ParseFailed", what |-> s]
OversizedVectorAllocation(req, max) ==
    [type |-> "OversizedVectorAllocation", requested |-> req, max |-> max]
InvalidChecksum(expected, actual) ==
    [type |-> "InvalidChecksum", expected |-> expected, actual |-> actual]
NonMinimalVarInt == [type |-> "NonMinimalVarInt"]

\* an encoder either returns its bytes or aborts (a failed assertion, an
\* out-of-range slice index)
Written(bs) == [ok |-> TRUE, bytes |-> bs]
Aborted == [ok |-> FALSE, bytes |-> <<>>]

---------------------------------------------------------------------------
(* Primitive codec (consensus::encode): fixed-width integers.              *)

LE16(w) == <<w % 256, w \div 256>>

u32_consensus_encode(x) == LE16(x[2]) \o LE16(x[1])

u64_consensus_encode(x) == LE16(x[4]) \o LE16(x[3]) \o LE16(x[2]) \o LE16(x[1])

\* read_exact of n bytes at position p
read_slice(buf, p, n) ==
    IF p + n > Len(buf) THEN Err(IoEof)
    ELSE Ok(SubSeq(buf, p + 1, p + n), p + n)

u8_consensus_decode(buf, p) ==
    LET Value(r) == IF r.ok THEN Ok(r.val[1], r.pos) ELSE r
    IN Value(read_slice(buf, p, 1))

u16_consensus_decode(buf, p) ==
    LET Value(r) == IF r.ok THEN Ok(r.val[2] * 256 + r.val[1], r.pos) ELSE r
    IN Value(read_slice(buf, p, 2))

u32_consensus_decode(buf, p) ==
    LET Value(r) ==
            IF r.ok
            THEN Ok(<<r.val[4] * 256 + r.val[3], r.val[2] * 256 + r.val[1]>>, r.pos)
            ELSE r
    IN Value(read_slice(buf, p, 4))

u64_consensus_decode(buf, p) ==
    LET Value(r) ==
            IF r.ok
            THEN Ok(<<r.val[8] * 256 + r.val[7], r.val[6] * 256 + r.val[5],
                      r.val[4] * 256 + r.val[3], r.val[2] * 256 + r.val[1]>>, r.pos)
            ELSE r
    IN Value(read_slice(buf, p, 8))

\* n as u32 / as u64, for a length n below 2^31
U32FromNat(n) == <<n \div 65536, n % 65536>>
U64FromNat(n) == <<0, 0, n \div 65536, n % 65536>>

\* the u32 x exceeds the number n (n below 2^31)
U32Gt(x, n) == x[1] > n \div 65536 \/ (x[1] = n \div 65536 /\ x[2] > n % 65536)

\* the number a u32 holds, where it is below 2^31
U32ToNat(x) == x[1] * 65536 + x[2]

---------------------------------------------------------------------------
(* Primitive codec (consensus::encode): VarInt.                            *)

VarInt_consensus_encode(x) ==
    IF x[1] = 0 /\ x[2] = 0 /\ x[3] = 0 /\ x[4] < 253 THEN <<x[4]>>
    ELSE IF x[1] = 0 /\ x[2] = 0 /\ x[3] = 0 THEN <<253>> \o LE16(x[4])
    ELSE IF x[1] = 0 /\ x[2] = 0 THEN <<254>> \o LE16(x[4]) \o LE16(x[3])
    ELSE <<255>> \o u64_consensus_encode(x)

VarInt_consensus_decode(buf, p) ==
    LET From64(x) ==
            IF ~x.ok THEN x
            ELSE IF x.val[1] = 0 /\ x.val[2] = 0 THEN Err(NonMinimalVarInt)
            ELSE x
        From32(x) ==
            IF ~x.ok THEN x
            ELSE IF x.val[1] = 0 THEN Err(NonMinimalVarInt)
            ELSE Ok(<<0, 0, x.val[1], x.val[2]>>, x.pos)
        From16(x) ==
            IF ~x.ok THEN x
            ELSE IF x.val < 253 THEN Err(NonMinimalVarInt)
            ELSE Ok(<<0, 0, 0, x.val>>, x.pos)
        Tagged(n) ==
            IF ~n.ok THEN n
            ELSE IF n.val = 255 THEN From64(u64_consensus_decode(buf, n.pos))
            ELSE IF n.val = 254 THEN From32(u32_consensus_decode(buf, n.pos))
            ELSE IF n.val = 253 THEN From16(u16_consensus_decode(buf, n.pos))
            ELSE Ok(<<0, 0, 0, n.val>>, n.pos)
    IN Tagged(u8_consensus_decode(buf, p))

---------------------------------------------------------------------------
(* Strings: UTF-8 form of a sequence of scalar values (below U+0800).      *)

Utf8Char(c) == IF c < 128 THEN <<c>> ELSE <<192 + (c \div 64), 128 + (c % 64)>>

RECURSIVE Utf8(_)
Utf8(s) == IF s = <<>> THEN <<>> ELSE Utf8Char(Head(s)) \o Utf8(Tail(s))

\* str::len(): the length in bytes
StrLen(s) == Len(Utf8(s))

---------------------------------------------------------------------------
(* CommandString (message.rs 41-98).                                       *)

CommandStringError(cow) == [type |-> "CommandStringError", cow |-> cow]

\* try_from measuring the text in characters (chars().count()) where the
\* source measures it in bytes
CommandString_try_from_chars(s) ==
    IF Len(s) > 12 THEN Err(CommandStringError(s)) ELSE Ok(s, 0)

CommandString_try_from(s) ==
    IF StrLen(s) > 12 THEN Err(CommandStringError(s)) ELSE Ok(s, 0)

\* the encoder padding the field with spaces where the source pads it
\* with zeros
CommandString_consensus_encode_space_padded(c) ==
    LET Padded(strbytes) ==
            IF Len(strbytes) <= 12
            THEN Written(strbytes \o Rep(32, 12 - Len(strbytes)))
            ELSE Aborted
    IN Padded(Utf8(c))

CommandString_consensus_encode(c) ==
    LET Padded(strbytes) ==
            IF Len(strbytes) <= 12
            THEN Written(strbytes \o Rep(0, 12 - Len(strbytes)))
            ELSE Aborted
    IN Padded(Utf8(c))

\* `u as char` maps the byte u to the scalar value U+00u
\* the decoder refusing a field that holds a byte above 0x7f
CommandString_consensus_decode_ascii_only(buf, p) ==
    LET Filtered(rawbytes) ==
            IF ~rawbytes.ok THEN rawbytes
            ELSE IF \E i \in 1..12 : rawbytes.val[i] >= 128
            THEN Err(ParseFailed("command is not ASCII"))
            ELSE Ok(SelectSeq(rawbytes.val, LAMBDA u : u > 0), rawbytes.pos)
    IN Filtered(read_slice(buf, p, 12))

CommandString_consensus_decode(buf, p) ==
    LET Filtered(rawbytes) ==
            IF ~rawbytes.ok THEN rawbytes
            ELSE Ok(SelectSeq(rawbytes.val, LAMBDA u : u > 0), rawbytes.pos)
    IN Filtered(read_slice(buf, p, 12))

---------------------------------------------------------------------------
(* Strings on the wire (consensus::encode, String / Cow<str>).             *)

Utf8CharFull(c) ==
    IF c < 2048 THEN Utf8Char(c)
    ELSE IF c < 65536
    THEN <<224 + (c \div 4096), 128 + ((c \div 64) % 64), 128 + (c % 64)>>
    ELSE <<240 + (c \div 262144), 128 + ((c \div 4096) % 64),
           128 + ((c \div 64) % 64), 128 + (c % 64)>>

IsCont(b) == b >= 128 /\ b <= 191

\* String::from_utf8: the scalar values, or <<-1>> for invalid UTF-8
RECURSIVE FromUtf8(_)
FromUtf8(bs) ==
    IF bs = <<>> THEN <<>>
    ELSE LET Width(b) == IF b < 128 THEN 1
                         ELSE IF b >= 194 /\ b <= 223 THEN 2
                         ELSE IF b >= 224 /\ b <= 239 THEN 3
                         ELSE IF b >= 240 /\ b <= 244 THEN 4
                         ELSE 0
             Scalar(n) ==
                 IF n = 1 THEN bs[1]
                 ELSE IF n = 2 THEN (bs[1] - 192) * 64 + (bs[2] - 128)
                 ELSE IF n = 3
                 THEN (bs[1] - 224) * 4096 + (bs[2] - 128) * 64 + (bs[3] - 128)
                 ELSE (bs[1] - 240) * 262144 + (bs[2] - 128) * 4096
                      + (bs[3] - 128) * 64 + (bs[4] - 128)
             WellFormed(n) == /\ n > 0
                              /\ Len(bs) >= n
                              /\ \A i \in 2..n : IsCont(bs[i])
             InRange(n, c) ==
                 /\ (n = 3 => c >= 2048 /\ ~(c >= 55296 /\ c <= 57343))
                 /\ (n = 4 => c >= 65536 /\ c <= 1114111)
             Cons(c, rest) == IF rest = <<-1>> THEN rest ELSE <<c>> \o rest
             Step(n) ==
                 IF ~WellFormed(n) THEN <<-1>>
                 ELSE IF ~InRange(n, Scalar(n)) THEN <<-1>>
                 ELSE Cons(Scalar(n), FromUtf8(Drop(bs, n)))
         IN Step(Width(bs[1]))

---------------------------------------------------------------------------
(* Checksummed payload container and byte vectors (consensus::encode).     *)

\* global maximum buffer size
MAX_VEC_SIZE == 4000000

\* sum of data[lo..hi] modulo 256, by halves
RECURSIVE ByteSum(_, _, _)
ByteSum(data, lo, hi) ==
    IF lo > hi THEN 0
    ELSE IF lo = hi THEN data[lo]
    ELSE LET mid == (lo + hi) \div 2
         IN (ByteSum(data, lo, mid) + ByteSum(data, mid + 1, hi)) % 256

\* sum of i * data[i] over lo..hi modulo 256, by halves
RECURSIVE WeightedSum(_, _, _)
WeightedSum(data, lo, hi) ==
    IF lo > hi THEN 0
    ELSE IF lo = hi THEN ((lo % 256) * data[lo]) % 256
    ELSE LET mid == (lo + hi) \div 2
         IN (WeightedSum(data, lo, mid) + WeightedSum(data, mid + 1, hi)) % 256

\* First four bytes of the double hash of data.  The hash function lies
\* outside the repository; this four-byte digest stands for it.  It agrees
\* with the double hash on the empty input (5d f6 e0 e2) and differs
\* whenever a single bit of data differs.
sha2_checksum(data) ==
    LET Digest(a, b) == <<(93 + a) % 256, (246 + b) % 256,
                          (224 + Len(data)) % 256, (226 + a + b) % 256>>
    IN Digest(ByteSum(data, 1, Len(data)), WeightedSum(data, 1, Len(data)))

CheckedData_consensus_encode(data) ==
    u32_consensus_encode(U32FromNat(Len(data))) \o sha2_checksum(data) \o data

CheckedData_consensus_decode(buf, p) ==
    LET Verified(checksum, ret, expected_checksum) ==
            IF expected_checksum # checksum.val
            THEN Err(InvalidChecksum(expected_checksum, checksum.val))
            ELSE ret
        WithData(checksum, ret) ==
            IF ~ret.ok THEN ret
            ELSE Verified(checksum, ret, sha2_checksum(ret.val))
        WithChecksum(len, checksum) ==
            IF ~checksum.ok THEN checksum
            ELSE WithData(checksum,
                          read_slice(buf, checksum.pos, U32ToNat(len.val)))
        WithLen(len) ==
            IF ~len.ok THEN len
            ELSE IF U32Gt(len.val, MAX_VEC_SIZE)
            THEN Err(OversizedVectorAllocation(len.val, MAX_VEC_SIZE))
            ELSE WithChecksum(len, read_slice(buf, len.pos, 4))
    IN WithLen(u32_consensus_decode(buf, p))

\* Vec<u8>: a VarInt length, then the bytes
VecU8_consensus_encode(data) ==
    VarInt_consensus_encode(U64FromNat(Len(data))) \o data

VecU8_consensus_decode(buf, p) ==
    LET WithLen(len) ==
            IF ~len.ok THEN len
            ELSE IF len.val[1] # 0 \/ len.val[2] # 0
                    \/ U32Gt(<<len.val[3], len.val[4]>>, MAX_VEC_SIZE)
            THEN Err(OversizedVectorAllocation(len.val, MAX_VEC_SIZE))
            ELSE read_slice(buf, len.pos, U32ToNat(<<len.val[3], len.val[4]>>))
    IN WithLen(VarInt_consensus_decode(buf, p))

String_consensus_encode(s) == VecU8_consensus_encode(Concat([i \in 1..Len(s) |-> Utf8CharFull(s[i])]))

String_consensus_decode(buf, p) ==
    LET Checked(v, s) ==
            IF s = <<-1>> THEN Err(ParseFailed("String was not valid UTF8"))
            ELSE Ok(s, v.pos)
        WithBytes(v) == IF ~v.ok THEN v ELSE Checked(v, FromUtf8(v.val))
    IN WithBytes(VecU8_consensus_decode(buf, p))

\* A collaborator payload type (transactions, blocks, addresses, inventory
\* lists, filters): an opaque, self-delimiting record.  Its value is the
\* record's body; the record is the body behind its length.
Collab_consensus_encode(dat) == VecU8_consensus_encode(dat)

Collab_consensus_decode(buf, p) == VecU8_consensus_decode(buf, p)

---------------------------------------------------------------------------
(* RejectReason and Reject (message_network.rs 88-145).                    *)

RejectReasons == {"Malformed", "Invalid", "Obsolete", "Duplicate",
                  "NonStandard", "Dust", "Fee", "Checkpoint"}

\* the discriminant taken as the position of the variant in the enum
RejectReason_code_ordinal(r) ==
    CASE r = "Malformed" -> 0
      [] r = "Invalid" -> 1
      [] r = "Obsolete" -> 2
      [] r = "Duplicate" -> 3
      [] r = "NonStandard" -> 4
      [] r = "Dust" -> 5
      [] r = "Fee" -> 6
      [] r = "Checkpoint" -> 7

\* the discriminant: *self as u8
RejectReason_code(r) ==
    CASE r = "Malformed" -> 1
      [] r = "Invalid" -> 16
      [] r = "Obsolete" -> 17
      [] r = "Duplicate" -> 18
      [] r = "NonStandard" -> 64
      [] r = "Dust" -> 65
      [] r = "Fee" -> 66
      [] r = "Checkpoint" -> 67

\* the byte written, and the count returned
RejectReason_consensus_encode(r) == [bytes |-> <<RejectReason_code(r)>>, len |-> 1]

RejectReason_consensus_decode(buf, p) ==
    LET Match(b) ==
            IF ~b.ok THEN b
            ELSE CASE b.val = 1 -> Ok("Malformed", b.pos)
                   [] b.val = 16 -> Ok("Invalid", b.pos)
                   [] b.val = 17 -> Ok("Obsolete", b.pos)
                   [] b.val = 18 -> Ok("Duplicate", b.pos)
                   [] b.val = 64 -> Ok("NonStandard", b.pos)
                   [] b.val = 65 -> Ok("Dust", b.pos)
                   [] b.val = 66 -> Ok("Fee", b.pos)
                   [] b.val = 67 -> Ok("Checkpoint", b.pos)
                   [] OTHER -> Err(ParseFailed("unknown reject code"))
    IN Match(u8_consensus_decode(buf, p))

\* impl_consensus_encoding!(Reject, message, ccode, reason, hash)
Reject_consensus_encode(r) ==
    LET Fields(message) ==
            IF ~message.ok THEN Aborted
            ELSE Written(message.bytes
                         \o RejectReason_consensus_encode(r.ccode).bytes
                         \o String_consensus_encode(r.reason)
                         \o r.hash)
    IN Fields(CommandString_consensus_encode(r.message))

Reject_consensus_decode(buf, p) ==
    LET WithHash(message, ccode, reason, hash) ==
            IF ~hash.ok THEN hash
            ELSE Ok([message |-> message.val, ccode |-> ccode.val,
                     reason |-> reason.val, hash |-> hash.val], hash.pos)
        WithReason(message, ccode, reason) ==
            IF ~reason.ok THEN reason
            ELSE WithHash(message, ccode, reason, read_slice(buf, reason.pos, 32))
        WithCcode(message, ccode) ==
            IF ~ccode.ok THEN ccode
            ELSE WithReason(message, ccode, String_consensus_decode(buf, ccode.pos))
        WithMessage(message) ==
            IF ~message.ok THEN message
            ELSE WithCcode(message, RejectReason_consensus_decode(buf, message.pos))
    IN WithMessage(CommandString_consensus_decode(buf, p))

---------------------------------------------------------------------------
(* Block headers (blockdata::block) and the headers wrappers               *)
(* (message.rs 277-290, 336-357).                                          *)

\* mem::size_of::<block::BlockHeader>()
BlockHeaderSize == 80

BlockHeader_consensus_encode(h) ==
    h.version \o h.prev_blockhash \o h.merkle_root \o h.time \o h.bits \o h.nonce

BlockHeader_consensus_decode(buf, p) ==
    LET Fields(r) ==
            IF ~r.ok THEN r
            ELSE Ok([version |-> SubSeq(r.val, 1, 4),
                     prev_blockhash |-> SubSeq(r.val, 5, 36),
                     merkle_root |-> SubSeq(r.val, 37, 68),
                     time |-> SubSeq(r.val, 69, 72),
                     bits |-> SubSeq(r.val, 73, 76),
                     nonce |-> SubSeq(r.val, 77, 80)], r.pos)
    IN Fields(read_slice(buf, p, 80))

RECURSIVE EncodeHeaders(_)
EncodeHeaders(hs) ==
    IF hs = <<>> THEN <<>>
    ELSE BlockHeader_consensus_encode(Head(hs)) \o <<0>> \o EncodeHeaders(Tail(hs))

HeaderSerializationWrapper_consensus_encode(hs) ==
    VarInt_consensus_encode(U64FromNat(Len(hs))) \o EncodeHeaders(hs)

\* (len as usize).checked_mul(k) on a 64-bit usize: the product's limbs, or
\* <<>> on overflow
usize_checked_mul(x, k) ==
    LET Limbs(p1, p2, p3, p4) ==
            IF p1 \div 65536 > 0 THEN <<>>
            ELSE <<p1 % 65536, p2 % 65536, p3 % 65536, p4 % 65536>>
        Carry1(p2, p3, p4) == Limbs(x[1] * k + (p2 \div 65536), p2, p3, p4)
        Carry2(p3, p4) == Carry1(x[2] * k + (p3 \div 65536), p3, p4)
        Carry3(p4) == Carry2(x[3] * k + (p4 \div 65536), p4)
    IN Carry3(x[4] * k)

\* the usize x exceeds the number n (n below 2^31)
UsizeGt(x, n) == x[1] # 0 \/ x[2] # 0 \/ U32Gt(<<x[3], x[4]>>, n)

\* the loop without the test of the byte after each header
RECURSIVE DecodeHeaders_any_marker(_, _, _, _)
DecodeHeaders_any_marker(buf, p, n, ret) ==
    IF n = 0 THEN Ok(ret, p)
    ELSE LET WithMarker(h, m) ==
                 IF ~m.ok THEN m
                 ELSE DecodeHeaders_any_marker(buf, m.pos, n - 1, Append(ret, h.val))
             WithHeader(h) ==
                 IF ~h.ok THEN h
                 ELSE WithMarker(h, u8_consensus_decode(buf, h.pos))
         IN WithHeader(BlockHeader_consensus_decode(buf, p))

\* the loop `for _ in 0..len`, with n iterations left
RECURSIVE DecodeHeaders(_, _, _, _)
DecodeHeaders(buf, p, n, ret) ==
    IF n = 0 THEN Ok(ret, p)
    ELSE LET WithMarker(h, m) ==
                 IF ~m.ok THEN m
                 ELSE IF m.val # 0
                 THEN Err(ParseFailed("Headers message should not contain transactions"))
                 ELSE DecodeHeaders(buf, m.pos, n - 1, Append(ret, h.val))
             WithHeader(h) ==
                 IF ~h.ok THEN h
                 ELSE WithMarker(h, u8_consensus_decode(buf, h.pos))
         IN WithHeader(BlockHeader_consensus_decode(buf, p))

\* the decoder comparing the count, where the source compares the count
\* times the size of a header, with MAX_VEC_SIZE
HeaderDeserializationWrapper_consensus_decode_count_bound(buf, p) ==
    LET WithLen(len) ==
            IF ~len.ok THEN len
            ELSE IF UsizeGt(len.val, MAX_VEC_SIZE)
            THEN Err(OversizedVectorAllocation(len.val, MAX_VEC_SIZE))
            ELSE DecodeHeaders(buf, len.pos,
                               U32ToNat(<<len.val[3], len.val[4]>>), <<>>)
    IN WithLen(VarInt_consensus_decode(buf, p))

HeaderDeserializationWrapper_consensus_decode(buf, p) ==
    LET WithSize(len, byte_size) ==
            IF byte_size = <<>> THEN Err(ParseFailed("Invalid length"))
            ELSE IF UsizeGt(byte_size, MAX_VEC_SIZE)
            THEN Err(OversizedVectorAllocation(byte_size, MAX_VEC_SIZE))
            ELSE DecodeHeaders(buf, len.pos,
                               U32ToNat(<<len.val[3], len.val[4]>>), <<>>)
        WithLen(len) ==
            IF ~len.ok THEN len
            ELSE WithSize(len, usize_checked_mul(len.val, BlockHeaderSize))
    IN WithLen(VarInt_consensus_decode(buf, p))

---------------------------------------------------------------------------
(* NetworkMessage (message.rs 127-259).                                    *)
(* A message is [kind, dat]; dat is <<>> for a content-free kind and       *)
(* [command, payload] for Unknown.                                         *)

ContentFreeKinds == {"Verack", "SendHeaders", "MemPool", "GetAddr",
                     "WtxidRelay", "FilterClear", "SendAddrV2"}

\* kinds whose payload type is a collaborator's
CollabKinds == {"Version", "Addr", "Inv", "GetData", "NotFound", "GetBlocks",
                "GetHeaders", "Tx", "Block", "MerkleBlock", "FilterLoad",
                "FilterAdd", "GetCFilters", "CFilter", "GetCFHeaders",
                "CFHeaders", "GetCFCheckpt", "CFCheckpt", "AddrV2"}

KnownKinds == ContentFreeKinds \cup CollabKinds
              \cup {"Headers", "Ping", "Pong", "Alert", "Reject", "FeeFilter"}

Msg(kind, dat) == [kind |-> kind, dat |-> dat]

NetworkMessage_cmd(msg) ==
    LET kind == msg.kind
    IN
    CASE kind = "Version" -> <<118, 101, 114, 115, 105, 111, 110>>  \* version
      [] kind = "Verack" -> <<118, 101, 114, 97, 99, 107>>  \* verack
      [] kind = "Addr" -> <<97, 100, 100, 114>>  \* addr
      [] kind = "Inv" -> <<105, 110, 118>>  \* inv
      [] kind = "GetData" -> <<103, 101, 116, 100, 97, 116, 97>>  \* getdata
      [] kind = "NotFound" -> <<110, 111, 116, 102, 111, 117, 110, 100>>  \* notfound
      [] kind = "GetBlocks" -> <<103, 101, 116, 98, 108, 111, 99, 107, 115>>  \* getblocks
      [] kind = "GetHeaders" -> <<103, 101, 116, 104, 101, 97, 100, 101, 114, 115>>  \* getheaders
      [] kind = "MemPool" -> <<109, 101, 109, 112, 111, 111, 108>>  \* mempool
      [] kind = "Tx" -> <<116, 120>>  \* tx
      [] kind = "Block" -> <<98, 108, 111, 99, 107>>  \* block
      [] kind = "Headers" -> <<104, 101, 97, 100, 101, 114, 115>>  \* headers
      [] kind = "SendHeaders" -> <<115, 101, 110, 100, 104, 101, 97, 100, 101, 114, 115>>  \* sendheaders
      [] kind = "GetAddr" -> <<103, 101, 116, 97, 100, 100, 114>>  \* getaddr
      [] kind = "Ping" -> <<112, 105, 110, 103>>  \* ping
      [] kind = "Pong" -> <<112, 111, 110, 103>>  \* pong
      [] kind = "MerkleBlock" -> <<109, 101, 114, 107, 108, 101, 98, 108, 111, 99, 107>>  \* merkleblock
      [] kind = "FilterLoad" -> <<102, 105, 108, 116, 101, 114, 108, 111, 97, 100>>  \* filterload
      [] kind = "FilterAdd" -> <<102, 105, 108, 116, 101, 114, 97, 100, 100>>  \* filteradd
      [] kind = "FilterClear" -> <<102, 105, 108, 116, 101, 114, 99, 108, 101, 97, 114>>  \* filterclear
      [] kind = "GetCFilters" -> <<103, 101, 116, 99, 102, 105, 108, 116, 101, 114, 115>>  \* getcfilters
      [] kind = "CFilter" -> <<99, 102, 105, 108, 116, 101, 114>>  \* cfilter
      [] kind = "GetCFHeaders" -> <<103, 101, 116, 99, 102, 104, 101, 97, 100, 101, 114, 115>>  \* getcfheaders
      [] kind = "CFHeaders" -> <<99, 102, 104, 101, 97, 100, 101, 114, 115>>  \* cfheaders
      [] kind = "GetCFCheckpt" -> <<103, 101, 116, 99, 102, 99, 104, 101, 99, 107, 112, 116>>  \* getcfcheckpt
      [] kind = "CFCheckpt" -> <<99, 102, 99, 104, 101, 99, 107, 112, 116>>  \* cfcheckpt
      [] kind = "Alert" -> <<97, 108, 101, 114, 116>>  \* alert
      [] kind = "Reject" -> <<114, 101, 106, 101, 99, 116>>  \* reject
      [] kind = "FeeFilter" -> <<102, 101, 101, 102, 105, 108, 116, 101, 114>>  \* feefilter
      [] kind = "WtxidRelay" -> <<119, 116, 120, 105, 100, 114, 101, 108, 97, 121>>  \* wtxidrelay
      [] kind = "AddrV2" -> <<97, 100, 100, 114, 118, 50>>  \* addrv2
      [] kind = "SendAddrV2" -> <<115, 101, 110, 100, 97, 100, 100, 114, 118, 50>>  \* sendaddrv2
      [] kind = "Unknown" -> <<117, 110, 107, 110, 111, 119, 110>>  \* unknown

\* command() building the CommandString from cmd() for every variant,
\* Unknown included
NetworkMessage_command_from_cmd(msg) ==
    CommandString_try_from(NetworkMessage_cmd(msg))

NetworkMessage_command(msg) ==
    IF msg.kind = "Unknown" THEN Ok(msg.dat.command, 0)
    ELSE CommandString_try_from(NetworkMessage_cmd(msg))

RawNetworkMessage_cmd(m) == NetworkMessage_cmd(m.payload)

RawNetworkMessage_command(m) == NetworkMessage_command(m.payload)

---------------------------------------------------------------------------
(* RawNetworkMessage encoding (message.rs 292-334).                        *)

\* the match with the content-free kinds encoded as an empty vector
\* (serialize(&vec![]), one byte) where the source hands over no bytes
EncodePayload_empty_vec(msg) ==
    LET kind == msg.kind
        dat == msg.dat
    IN CASE kind \in CollabKinds -> Written(Collab_consensus_encode(dat))
         [] kind = "Headers" ->
                Written(HeaderSerializationWrapper_consensus_encode(dat))
         [] kind \in {"Ping", "Pong", "FeeFilter"} ->
                Written(u64_consensus_encode(dat))
         [] kind = "Alert" -> Written(VecU8_consensus_encode(dat))
         [] kind = "Reject" -> Reject_consensus_encode(dat)
         [] kind \in ContentFreeKinds -> Written(VecU8_consensus_encode(<<>>))
         [] kind = "Unknown" -> Written(VecU8_consensus_encode(dat.payload))

\* the match of lines 297-331: the bytes handed to CheckedData
EncodePayload(msg) ==
    LET kind == msg.kind
        dat == msg.dat
    IN CASE kind \in CollabKinds -> Written(Collab_consensus_encode(dat))
         [] kind = "Headers" ->
                Written(HeaderSerializationWrapper_consensus_encode(dat))
         [] kind \in {"Ping", "Pong", "FeeFilter"} ->
                Written(u64_consensus_encode(dat))
         [] kind = "Alert" -> Written(VecU8_consensus_encode(dat))
         [] kind = "Reject" -> Reject_consensus_encode(dat)
         [] kind \in ContentFreeKinds -> Written(<<>>)
         [] kind = "Unknown" -> Written(VecU8_consensus_encode(dat.payload))

RawNetworkMessage_consensus_encode(m) ==
    LET Parts(cmdbytes, data) ==
            IF ~cmdbytes.ok \/ ~data.ok THEN Aborted
            ELSE Written(u32_consensus_encode(m.magic)
                         \o cmdbytes.bytes
                         \o CheckedData_consensus_encode(data.bytes))
        WithCommand(command) ==
            IF ~command.ok THEN Aborted
            ELSE Parts(CommandString_consensus_encode(command.val),
                       EncodePayload(m.payload))
    IN WithCommand(RawNetworkMessage_command(m))

---------------------------------------------------------------------------
(* RawNetworkMessage decoding (message.rs 359-411).                        *)

\* the arm of the match of lines 366-405 that a command selects
DecodeArm(cmd) ==
    CASE cmd = <<118, 101, 114, 115, 105, 111, 110>> -> "Version"  \* version
      [] cmd = <<118, 101, 114, 97, 99, 107>> -> "Verack"  \* verack
      [] cmd = <<97, 100, 100, 114>> -> "Addr"  \* addr
      [] cmd = <<105, 110, 118>> -> "Inv"  \* inv
      [] cmd = <<103, 101, 116, 100, 97, 116, 97>> -> "GetData"  \* getdata
      [] cmd = <<110, 111, 116, 102, 111, 117, 110, 100>> -> "NotFound"  \* notfound
      [] cmd = <<103, 101, 116, 98, 108, 111, 99, 107, 115>> -> "GetBlocks"  \* getblocks
      [] cmd = <<103, 101, 116, 104, 101, 97, 100, 101, 114, 115>> -> "GetHeaders"  \* getheaders
      [] cmd = <<109, 101, 109, 112, 111, 111, 108>> -> "MemPool"  \* mempool
      [] cmd = <<98, 108, 111, 99, 107>> -> "Block"  \* block
      [] cmd = <<104, 101, 97, 100, 101, 114, 115>> -> "Headers"  \* headers
      [] cmd = <<115, 101, 110, 100, 104, 101, 97, 100, 101, 114, 115>> -> "SendHeaders"  \* sendheaders
      [] cmd = <<103, 101, 116, 97, 100, 100, 114>> -> "GetAddr"  \* getaddr
      [] cmd = <<112, 105, 110, 103>> -> "Ping"  \* ping
      [] cmd = <<112, 111, 110, 103>> -> "Pong"  \* pong
      [] cmd = <<109, 101, 114, 107, 108, 101, 98, 108, 111, 99, 107>> -> "MerkleBlock"  \* merkleblock
      [] cmd = <<102, 105, 108, 116, 101, 114, 108, 111, 97, 100>> -> "FilterLoad"  \* filterload
      [] cmd = <<102, 105, 108, 116, 101, 114, 97, 100, 100>> -> "FilterAdd"  \* filteradd
      [] cmd = <<102, 105, 108, 116, 101, 114, 99, 108, 101, 97, 114>> -> "FilterClear"  \* filterclear
      [] cmd = <<116, 120>> -> "Tx"  \* tx
      [] cmd = <<103, 101, 116, 99, 102, 105, 108, 116, 101, 114, 115>> -> "GetCFilters"  \* getcfilters
      [] cmd = <<99, 102, 105, 108, 116, 101, 114>> -> "CFilter"  \* cfilter
      [] cmd = <<103, 101, 116, 99, 102, 104, 101, 97, 100, 101, 114, 115>> -> "GetCFHeaders"  \* getcfheaders
      [] cmd = <<99, 102, 104, 101, 97, 100, 101, 114, 115>> -> "CFHeaders"  \* cfheaders
      [] cmd = <<103, 101, 116, 99, 102, 99, 104, 101, 99, 107, 112, 116>> -> "GetCFCheckpt"  \* getcfcheckpt
      [] cmd = <<99, 102, 99, 104, 101, 99, 107, 112, 116>> -> "CFCheckpt"  \* cfcheckpt
      [] cmd = <<114, 101, 106, 101, 99, 116>> -> "Reject"  \* reject
      [] cmd = <<97, 108, 101, 114, 116>> -> "Alert"  \* alert
      [] cmd = <<102, 101, 101, 102, 105, 108, 116, 101, 114>> -> "FeeFilter"  \* feefilter
      [] cmd = <<119, 116, 120, 105, 100, 114, 101, 108, 97, 121>> -> "WtxidRelay"  \* wtxidrelay
      [] cmd = <<97, 100, 100, 114, 118, 50>> -> "AddrV2"  \* addrv2
      [] cmd = <<115, 101, 110, 100, 97, 100, 100, 114, 118, 50>> -> "SendAddrV2"  \* sendaddrv2
      [] OTHER -> "Unknown"

\* the decoder an arm calls, reading the cursor mem_d over raw_payload
DecodeKind(kind, cmd, raw_payload) ==
    LET Variant(r) == IF ~r.ok THEN r ELSE Ok(Msg(kind, r.val), r.pos)
    IN Variant(
        CASE kind \in CollabKinds -> Collab_consensus_decode(raw_payload, 0)
          [] kind = "Headers" ->
                 HeaderDeserializationWrapper_consensus_decode(raw_payload, 0)
          [] kind \in {"Ping", "Pong", "FeeFilter"} ->
                 u64_consensus_decode(raw_payload, 0)
          [] kind = "Alert" -> VecU8_consensus_decode(raw_payload, 0)
          [] kind = "Reject" -> Reject_consensus_decode(raw_payload, 0)
          [] kind \in ContentFreeKinds -> Ok(<<>>, 0)
          [] kind = "Unknown" ->
                 Ok([command |-> cmd, payload |-> raw_payload], Len(raw_payload)))

\* the match without its "tx" arm
DecodePayload_no_tx_arm(cmd, raw_payload) ==
    DecodeKind(IF DecodeArm(cmd) = "Tx" THEN "Unknown" ELSE DecodeArm(cmd),
               cmd, raw_payload)

\* the match of lines 366-405
DecodePayload(cmd, raw_payload) == DecodeKind(DecodeArm(cmd), cmd, raw_payload)

\* the decoder taking the payload by its declared length, the stored
\* checksum skipped and never compared
RawNetworkMessage_consensus_decode_unverified(buf, p) ==
    LET WithPayload(magic, raw_payload, payload) ==
            IF ~payload.ok THEN payload
            ELSE Ok([magic |-> magic.val, payload |-> payload.val],
                    raw_payload.pos)
        WithRaw(magic, cmd, raw_payload) ==
            IF ~raw_payload.ok THEN raw_payload
            ELSE WithPayload(magic, raw_payload,
                             DecodePayload(cmd.val, raw_payload.val))
        WithLen(magic, cmd, len) ==
            IF ~len.ok THEN len
            ELSE IF U32Gt(len.val, MAX_VEC_SIZE)
            THEN Err(OversizedVectorAllocation(len.val, MAX_VEC_SIZE))
            ELSE WithRaw(magic, cmd,
                         read_slice(buf, len.pos + 4, U32ToNat(len.val)))
        WithCmd(magic, cmd) ==
            IF ~cmd.ok THEN cmd
            ELSE WithLen(magic, cmd, u32_consensus_decode(buf, cmd.pos))
        WithMagic(magic) ==
            IF ~magic.ok THEN magic
            ELSE WithCmd(magic, CommandString_consensus_decode(buf, magic.pos))
    IN WithMagic(u32_consensus_decode(buf, p))

\* the decoder reading the four checksum bytes before the length is
\* compared with MAX_VEC_SIZE
RawNetworkMessage_consensus_decode_checksum_first(buf, p) ==
    LET WithPayload(magic, raw_payload, payload) ==
            IF ~payload.ok THEN payload
            ELSE Ok([magic |-> magic.val, payload |-> payload.val],
                    raw_payload.pos)
        WithRaw(magic, cmd, raw_payload) ==
            IF ~raw_payload.ok THEN raw_payload
            ELSE WithPayload(magic, raw_payload,
                             DecodePayload(cmd.val, raw_payload.val))
        WithChecksum(magic, cmd, checksum) ==
            IF ~checksum.ok THEN checksum
            ELSE WithRaw(magic, cmd, CheckedData_consensus_decode(buf, cmd.pos))
        WithCmd(magic, cmd) ==
            IF ~cmd.ok THEN cmd
            ELSE WithChecksum(magic, cmd, read_slice(buf, cmd.pos + 4, 4))
        WithMagic(magic) ==
            IF ~magic.ok THEN magic
            ELSE WithCmd(magic, CommandString_consensus_decode(buf, magic.pos))
    IN WithMagic(u32_consensus_decode(buf, p))

\* the decoder handing the structural decoder the live stream: the bytes
\* consumed end where the structural decoder stopped
RawNetworkMessage_consensus_decode_live_stream(buf, p) ==
    LET WithPayload(magic, cmd, raw_payload, payload) ==
            IF ~payload.ok THEN payload
            ELSE Ok([magic |-> magic.val, payload |-> payload.val],
                    cmd.pos + 8 + payload.pos)
        WithRaw(magic, cmd, raw_payload) ==
            IF ~raw_payload.ok THEN raw_payload
            ELSE WithPayload(magic, cmd, raw_payload,
                             DecodePayload(cmd.val, raw_payload.val))
        WithCmd(magic, cmd) ==
            IF ~cmd.ok THEN cmd
            ELSE WithRaw(magic, cmd, CheckedData_consensus_decode(buf, cmd.pos))
        WithMagic(magic) ==
            IF ~magic.ok THEN magic
            ELSE WithCmd(magic, CommandString_consensus_decode(buf, magic.pos))
    IN WithMagic(u32_consensus_decode(buf, p))

\* the decoder refusing a payload its structural decoder did not read to
\* the end, where the source drops the cursor with what is left in it
RawNetworkMessage_consensus_decode_strict(buf, p) ==
    LET WithPayload(magic, raw_payload, payload) ==
            IF ~payload.ok THEN payload
            ELSE IF payload.pos # Len(raw_payload.val)
            THEN Err(ParseFailed("data not consumed entirely"))
            ELSE Ok([magic |-> magic.val, payload |-> payload.val],
                    raw_payload.pos)
        WithRaw(magic, cmd, raw_payload) ==
            IF ~raw_payload.ok THEN raw_payload
            ELSE WithPayload(magic, raw_payload,
                             DecodePayload(cmd.val, raw_payload.val))
        WithCmd(magic, cmd) ==
            IF ~cmd.ok THEN cmd
            ELSE WithRaw(magic, cmd, CheckedData_consensus_decode(buf, cmd.pos))
        WithMagic(magic) ==
            IF ~magic.ok THEN magic
            ELSE WithCmd(magic, CommandString_consensus_decode(buf, magic.pos))
    IN WithMagic(u32_consensus_decode(buf, p))

\* the decoder handing the match the reader d itself, positioned at the
\* payload, where the source hands it a cursor over raw_payload
RawNetworkMessage_consensus_decode_shared_reader(buf, p) ==
    LET WithPayload(magic, raw_payload, payload) ==
            IF ~payload.ok THEN payload
            ELSE Ok([magic |-> magic.val, payload |-> payload.val],
                    raw_payload.pos)
        WithRaw(magic, cmd, raw_payload) ==
            IF ~raw_payload.ok THEN raw_payload
            ELSE WithPayload(magic, raw_payload,
                             DecodePayload(cmd.val, Drop(buf, cmd.pos + 8)))
        WithCmd(magic, cmd) ==
            IF ~cmd.ok THEN cmd
            ELSE WithRaw(magic, cmd, CheckedData_consensus_decode(buf, cmd.pos))
        WithMagic(magic) ==
            IF ~magic.ok THEN magic
            ELSE WithCmd(magic, CommandString_consensus_decode(buf, magic.pos))
    IN WithMagic(u32_consensus_decode(buf, p))

RawNetworkMessage_consensus_decode(buf, p) ==
    LET WithPayload(magic, raw_payload, payload) ==
            IF ~payload.ok THEN payload
            ELSE Ok([magic |-> magic.val, payload |-> payload.val],
                    raw_payload.pos)
        WithRaw(magic, cmd, raw_payload) ==
            IF ~raw_payload.ok THEN raw_payload
            ELSE WithPayload(magic, raw_payload,
                             DecodePayload(cmd.val, raw_payload.val))
        WithCmd(magic, cmd) ==
            IF ~cmd.ok THEN cmd
            ELSE WithRaw(magic, cmd, CheckedData_consensus_decode(buf, cmd.pos))
        WithMagic(magic) ==
            IF ~magic.ok THEN magic
            ELSE WithCmd(magic, CommandString_consensus_decode(buf, magic.pos))
    IN WithMagic(u32_consensus_decode(buf, p))

---------------------------------------------------------------------------
(* Entry points (consensus::encode).                                       *)

serialize(m) == RawNetworkMessage_consensus_encode(m)

\* the value and the number of bytes consumed (pos)
deserialize_partial(data) == RawNetworkMessage_consensus_decode(data, 0)

deserialize(data) ==
    LET Whole(r) ==
            IF ~r.ok THEN r
            ELSE IF r.pos = Len(data) THEN r
            ELSE Err(ParseFailed("data not consumed entirely when explicitly deserializing"))
    IN Whole(deserialize_partial(data))

---------------------------------------------------------------------------
(* Inputs of the scenarios.                                                *)

NoMsg == [magic |-> <<0, 0>>, payload |-> Msg("None", <<>>)]
NoRes == Err(NoErr)
\* no RejectReason encoded yet
NoBytes == [bytes |-> <<>>, len |-> 0]

NoTamper == [kind |-> "none"]

\* 0xd9b4bef9 (the main network) and 57 (the round-trip test)
Magics == {<<55732, 48889>>, <<0, 57>>}

CanonicalName(kind) == NetworkMessage_cmd(Msg(kind, <<>>))

\* "foobar12345"
Foobar == <<102, 111, 111, 98, 97, 114, 49, 50, 51, 52, 53>>

SampleU64 == {<<0, 0, 0, 100>>, <<0, 0, 0, 0>>, <<65535, 65535, 65535, 65535>>,
              <<291, 17767, 35243, 52719>>}

HeaderA == [version |-> <<1, 0, 0, 0>>, prev_blockhash |-> Rep(0, 32),
            merkle_root |-> Rep(170, 32), time |-> <<215, 77, 110, 73>>,
            bits |-> <<255, 255, 0, 29>>, nonce |-> <<50, 59, 58, 123>>]

HeaderB == [version |-> <<255, 255, 255, 255>>, prev_blockhash |-> Rep(1, 32),
            merkle_root |-> Rep(255, 32), time |-> <<0, 0, 0, 0>>,
            bits |-> <<0, 0, 0, 0>>, nonce |-> <<0, 1, 2, 3>>]

SampleHeaders ==
    { [i \in 1..n |-> IF i % 2 = 1 THEN HeaderA ELSE HeaderB] : n \in 0..MaxHeaders }

\* rejections of a "tx", without and with the reason "Cause"
SampleReject ==
    { [message |-> m, ccode |-> c, reason |-> r, hash |-> Rep(255, 32)] :
        m \in {<<116, 120>>},
        c \in {"Duplicate", "Malformed"},
        r \in {<<>>, <<67, 97, 117, 115, 101>>} }

\* texts handed to try_from: runs of "a" ending in a mix of NUL, "a" and
\* U+00E9 (two bytes in UTF-8), and runs of U+00E9
TextChars == {0, 97, 233}

TextInputs ==
    { Rep(97, n) \o m : n \in 0..MaxTextLen, m \in SeqsUpTo(TextChars, MaxMixLen) }
    \cup { Rep(233, n) : n \in 0..MaxTextLen }
    \cup { CanonicalName(k) : k \in KnownKinds \cup {"Unknown"} }
    \cup { Foobar }

\* the CommandStrings a caller can hold: those try_from builds
Constructible == { t \in TextInputs : CommandString_try_from(t).ok }

SampleUnknownCommands ==
    { t \in Constructible : Len(t) <= 1 }
    \cup { <<97, 0, 97>>, Foobar, CanonicalName("Unknown"), CanonicalName("Verack") }

\* the values of each kind a sender encodes
SampleDat(kind) ==
    CASE kind \in ContentFreeKinds -> {<<>>}
      [] kind \in CollabKinds -> SeqsUpTo({1}, MaxMixLen)
      [] kind \in {"Ping", "Pong", "FeeFilter"} -> SampleU64
      [] kind = "Alert" -> SeqsUpTo({0, 255}, MaxMixLen)
      [] kind = "Headers" -> SampleHeaders
      [] kind = "Reject" -> SampleReject
      [] kind = "Unknown" ->
             { [command |-> c, payload |-> b] :
                 c \in SampleUnknownCommands, b \in SeqsUpTo({0, 255}, MaxMixLen) }

Pad12(bs) == Take(bs \o Rep(0, 12), 12)

\* command fields a peer may put on the wire: the padded names, a name
\* broken by a zero byte ("ver", 0, "ack"), bytes with the high bit set,
\* twelve letters
CraftCommands ==
    { Pad12(CanonicalName(k)) : k \in KnownKinds \cup {"Unknown"} }
    \cup { Pad12(Foobar), Rep(0, 12), Rep(65, 12),
           Pad12(<<118, 101, 114, 0, 97, 99, 107>>),
           Pad12(<<0, 116, 0, 120>>),
           Pad12(Rep(255, 6)), Pad12(Rep(255, 7)), Rep(128, 12),
           Pad12(<<116, 120, 128>>) }

\* payloads a peer may put on the wire: every mix of 0, 1 and 255 up to
\* MaxMixLen bytes, and 47 bytes holding a reject record (a 12-byte name,
\* the code 1, an empty reason, a 32-byte hash) and one byte more
CraftPayloads ==
    SeqsUpTo({0, 1, 255}, MaxMixLen) \cup {Rep(1, 13) \o <<0>> \o Rep(1, 33)}

\* declared lengths a peer may forge: MAX_VEC_SIZE, MAX_VEC_SIZE + 1, 2^31,
\* 2^32 - 1
ForgedLengths == {<<61, 2304>>, <<61, 2305>>, <<32768, 0>>, <<65535, 65535>>}

TrailingBytes == SeqsUpTo({0, 249}, MaxTrailing) \ {<<>>}

\* header counts a peer may announce: 0, 1, 2, 50000 (times 80 is
\* MAX_VEC_SIZE), 50001, 2^16, 2^32, the largest count whose product
\* with 80 fits 64 bits, the next one, and 2^64 - 1
HeaderCounts ==
    { <<0, 0, 0, 0>>, <<0, 0, 0, 1>>, <<0, 0, 0, 2>>, <<0, 0, 0, 50000>>,
      <<0, 0, 0, 50001>>, <<0, 0, 1, 0>>, <<0, 1, 0, 0>>,
      <<819, 13107, 13107, 13107>>, <<819, 13107, 13107, 13108>>,
      <<65535, 65535, 65535, 65535>> }

FlipBit(b, k) == IF (b \div (2 ^ k)) % 2 = 1 THEN b - 2 ^ k ELSE b + 2 ^ k

\* the envelope a peer builds around a payload, with a valid checksum
Envelope(magic, cmdbytes, payload) ==
    LE16(magic[2]) \o LE16(magic[1]) \o cmdbytes
    \o LE16(Len(payload) % 65536) \o LE16(Len(payload) \div 65536)
    \o sha2_checksum(payload) \o payload

\* a headers payload a peer builds: after header i comes the byte markers[i]
RECURSIVE HeadersWithMarkers(_, _)
HeadersWithMarkers(hs, markers) ==
    IF hs = <<>> THEN <<>>
    ELSE BlockHeader_consensus_encode(Head(hs)) \o <<Head(markers)>>
         \o HeadersWithMarkers(Tail(hs), Tail(markers))

---------------------------------------------------------------------------
(* The envelope scenario: a sender encodes a message, or a peer crafts     *)
(* one; the bytes may be altered on the way; the receiver decodes them     *)
(* and may encode the decoded message again.                               *)

Init ==
    /\ pc = "idle"
    /\ sent = NoMsg
    /\ orig = <<>>
    /\ wire = <<>>
    /\ tamper = NoTamper
    /\ res = NoRes
    /\ rewire = Aborted
    /\ text = <<>>
    /\ cs = NoRes
    /\ csbytes = Aborted
    /\ csdec = NoRes
    /\ rreason = "None"
    /\ rbytes = NoBytes
    /\ rdec = NoRes

\* serialize(&RawNetworkMessage { magic, payload })
Send(magic, payload) ==
    /\ pc = "idle"
    /\ LET Put(m, out) ==
               /\ out.ok
               /\ sent' = m
               /\ orig' = out.bytes
               /\ wire' = out.bytes
           Encode(m) == Put(m, serialize(m))
       IN Encode([magic |-> magic, payload |-> payload])
    /\ pc' = "sent"
    /\ UNCHANGED <<tamper, res, rewire, cmdVars, rejVars>>

\* a peer sends a checksum-valid envelope of its own making
Craft(magic, cmdbytes, payload) ==
    /\ pc = "idle"
    /\ orig' = Envelope(magic, cmdbytes, payload)
    /\ wire' = orig'
    /\ tamper' = [kind |-> "crafted"]
    /\ pc' = "sent"
    /\ UNCHANGED <<sent, res, rewire, cmdVars, rejVars>>

\* a peer sends a headers message announcing Len(hs) headers, with its own
\* marker bytes, cut after `kept` headers and markers
CraftHeaders(magic, hs, markers, kept) ==
    /\ pc = "idle"
    /\ LET payload == <<Len(hs)>>
                      \o HeadersWithMarkers(Take(hs, kept), Take(markers, kept))
       IN orig' = Envelope(magic, Pad12(CanonicalName("Headers")), payload)
    /\ wire' = orig'
    /\ tamper' = [kind |-> "headers", hs |-> hs, markers |-> markers, kept |-> kept]
    /\ pc' = "sent"
    /\ UNCHANGED <<sent, res, rewire, cmdVars, rejVars>>

\* a peer sends a headers message announcing `count` headers and carrying
\* the headers hs, a zero byte after each
CraftHeadersCount(magic, count, hs) ==
    /\ pc = "idle"
    /\ LET payload == VarInt_consensus_encode(count)
                      \o HeadersWithMarkers(hs, Rep(0, Len(hs)))
       IN orig' = Envelope(magic, Pad12(CanonicalName("Headers")), payload)
    /\ wire' = orig'
    /\ tamper' = [kind |-> "count", count |-> count, hs |-> hs]
    /\ pc' = "sent"
    /\ UNCHANGED <<sent, res, rewire, cmdVars, rejVars>>

\* one bit of the payload region changes on the way
FlipPayloadBit(i, k) ==
    /\ pc = "sent"
    /\ tamper.kind = "none"
    /\ i \in 25..Len(wire)
    /\ wire' = [wire EXCEPT ![i] = FlipBit(wire[i], k)]
    /\ tamper' = [kind |-> "flip", at |-> i, bit |-> k]
    /\ pc' = "tampered"
    /\ UNCHANGED <<sent, orig, res, rewire, cmdVars, rejVars>>

\* unrelated bytes follow the message in the receiver's buffer
AppendTrailing(t) ==
    /\ pc = "sent"
    /\ tamper.kind \in {"none", "crafted"}
    /\ wire' = wire \o t
    /\ tamper' = [kind |-> "append", tail |-> t]
    /\ pc' = "tampered"
    /\ UNCHANGED <<sent, orig, res, rewire, cmdVars, rejVars>>

\* the envelope declares another length; of what follows the length field
\* (checksum and payload) `keep` bytes arrive, and the stored checksum is
\* damaged when badsum
ForgeLength(len, keep, badsum) ==
    /\ pc = "sent"
    /\ tamper.kind = "none"
    /\ keep \in 0..(Len(wire) - 20)
    /\ LET rest == Drop(wire, 20)
           stored == IF badsum THEN [rest EXCEPT ![1] = FlipBit(rest[1], 0)]
                     ELSE rest
       IN wire' = Take(wire, 16) \o u32_consensus_encode(len) \o Take(stored, keep)
    /\ tamper' = [kind |-> "length", declared |-> len, keep |-> keep,
                  badsum |-> badsum]
    /\ pc' = "tampered"
    /\ UNCHANGED <<sent, orig, res, rewire, cmdVars, rejVars>>

\* deserialize_partial::<RawNetworkMessage>(&wire)
Decode ==
    /\ pc \in {"sent", "tampered"}
    /\ res' = deserialize_partial(wire)
    /\ pc' = "decoded"
    /\ UNCHANGED <<sent, orig, wire, tamper, rewire, cmdVars, rejVars>>

\* serialize(&msg) of the decoded message
ReEncode ==
    /\ pc = "decoded"
    /\ res.ok
    /\ rewire' = serialize(res.val)
    /\ pc' = "reencoded"
    /\ UNCHANGED <<sent, orig, wire, tamper, res, cmdVars, rejVars>>

Next ==
    \/ \E magic \in Magics, kind \in KnownKinds \cup {"Unknown"} :
          \E dat \in SampleDat(kind) : Send(magic, Msg(kind, dat))
    \/ \E c \in CraftCommands, b \in CraftPayloads : Craft(<<0, 57>>, c, b)
    \/ \E hs \in SampleHeaders, kept \in 0..MaxHeaders :
          \E markers \in [1..Len(hs) -> {0, 1, 255}] :
             kept <= Len(hs) /\ CraftHeaders(<<0, 57>>, hs, markers, kept)
    \/ \E count \in HeaderCounts, hs \in SampleHeaders :
          CraftHeadersCount(<<0, 57>>, count, hs)
    \/ \E i \in 25..Len(wire), k \in 0..7 : FlipPayloadBit(i, k)
    \/ \E t \in TrailingBytes : AppendTrailing(t)
    \/ \E len \in ForgedLengths, keep \in {0, 2, 4, Len(wire) - 20},
          badsum \in BOOLEAN : ForgeLength(len, keep, badsum)
    \/ Decode
    \/ ReEncode

Spec == Init /\ [][Next]_vars

---------------------------------------------------------------------------
(* The command scenario: a caller builds a CommandString with try_from     *)
(* and sends it through the codec, or a receiver decodes the command       *)
(* field of an envelope and encodes the CommandString it got.              *)

\* command fields as they arrive: a few leading bytes of any kind, then a
\* run of "A" or of 0xff, then zeros; fewer than 12 bytes for a short read
\* and 13 for a long one
RawCmdInputs ==
    { SubSeq(m \o Rep(b, n) \o Rep(0, 13), 1, len) :
        m \in SeqsUpTo({0, 65, 128, 255}, MaxMixLen),
        b \in {65, 255}, n \in 0..12, len \in 0..13 }

InitCommand ==
    /\ pc = "c_idle"
    /\ sent = NoMsg
    /\ orig = <<>>
    /\ wire = <<>>
    /\ tamper = NoTamper
    /\ res = NoRes
    /\ rewire = Aborted
    /\ text = <<>>
    /\ cs = NoRes
    /\ csbytes = Aborted
    /\ csdec = NoRes
    /\ rreason = "None"
    /\ rbytes = NoBytes
    /\ rdec = NoRes

\* CommandString::try_from(s)
TryFrom(s) ==
    /\ pc = "c_idle"
    /\ text' = s
    /\ cs' = CommandString_try_from(s)
    /\ pc' = "c_built"
    /\ UNCHANGED <<envVars, csbytes, csdec, rejVars>>

\* serialize(&cs)
EncodeCommand ==
    /\ pc = "c_built"
    /\ cs.ok
    /\ csbytes' = CommandString_consensus_encode(cs.val)
    /\ pc' = "c_encoded"
    /\ UNCHANGED <<envVars, text, cs, csdec, rejVars>>

\* deserialize of the bytes the caller's CommandString encoded to
DecodeCommand ==
    /\ pc = "c_encoded"
    /\ csbytes.ok
    /\ csdec' = CommandString_consensus_decode(csbytes.bytes, 0)
    /\ pc' = "c_decoded"
    /\ UNCHANGED <<envVars, text, cs, csbytes, rejVars>>

\* CommandString::consensus_decode on bytes from a peer
ReceiveCommand(raw) ==
    /\ pc = "c_idle"
    /\ wire' = raw
    /\ csdec' = CommandString_consensus_decode(raw, 0)
    /\ pc' = "c_received"
    /\ UNCHANGED <<sent, orig, tamper, res, rewire, text, cs, csbytes, rejVars>>

\* serialize of the CommandString decoded from the peer's bytes
ReEncodeCommand ==
    /\ pc = "c_received"
    /\ csdec.ok
    /\ rewire' = CommandString_consensus_encode(csdec.val)
    /\ pc' = "c_reencoded"
    /\ UNCHANGED <<sent, orig, wire, tamper, res, cmdVars, rejVars>>

NextCommand ==
    \/ \E s \in TextInputs : TryFrom(s)
    \/ EncodeCommand
    \/ DecodeCommand
    \/ \E raw \in RawCmdInputs : ReceiveCommand(raw)
    \/ ReEncodeCommand

SpecCommand == InitCommand /\ [][NextCommand]_vars

---------------------------------------------------------------------------
(* The reject-reason scenario: a RejectReason is encoded and decoded,      *)
(* and a byte from a peer is decoded (message_network.rs 109-130).         *)

\* what a peer may send where a reject code is expected: nothing, any
\* byte, and a byte with another behind it
ReasonInputs ==
    {<<>>} \cup { <<b>> : b \in 0..255 } \cup { <<b, 1>> : b \in {1, 2} }

InitReject ==
    /\ pc = "r_idle"
    /\ sent = NoMsg
    /\ orig = <<>>
    /\ wire = <<>>
    /\ tamper = NoTamper
    /\ res = NoRes
    /\ rewire = Aborted
    /\ text = <<>>
    /\ cs = NoRes
    /\ csbytes = Aborted
    /\ csdec = NoRes
    /\ rreason = "None"
    /\ rbytes = NoBytes
    /\ rdec = NoRes

\* r.consensus_encode(&mut s)
EncodeReason(r) ==
    /\ pc = "r_idle"
    /\ rreason' = r
    /\ rbytes' = RejectReason_consensus_encode(r)
    /\ pc' = "r_encoded"
    /\ UNCHANGED <<envVars, cmdVars, rdec>>

\* RejectReason::consensus_decode of the byte written
DecodeReason ==
    /\ pc = "r_encoded"
    /\ rdec' = RejectReason_consensus_decode(rbytes.bytes, 0)
    /\ pc' = "r_decoded"
    /\ UNCHANGED <<envVars, cmdVars, rreason, rbytes>>

\* RejectReason::consensus_decode of bytes from a peer
ReceiveReason(raw) ==
    /\ pc = "r_idle"
    /\ wire' = raw
    /\ rdec' = RejectReason_consensus_decode(raw, 0)
    /\ pc' = "r_received"
    /\ UNCHANGED <<sent, orig, tamper, res, rewire, cmdVars, rreason, rbytes>>

NextReject ==
    \/ \E r \in RejectReasons : EncodeReason(r)
    \/ DecodeReason
    \/ \E raw \in ReasonInputs : ReceiveReason(raw)

SpecReject == InitReject /\ [][NextReject]_vars

---------------------------------------------------------------------------
(* Properties of the envelope scenario.                                    *)

\* two envelopes are equal: the kinds are compared before the contents
SameMessage(a, b) ==
    /\ a.magic = b.magic
    /\ a.payload.kind = b.payload.kind
    /\ a.payload.dat = b.payload.dat

\* the payload length an envelope declares (bytes 17..20, little-endian)
DeclaredLength(bytes) ==
    bytes[17] + 256 * bytes[18] + 65536 * bytes[19] + 16777216 * bytes[20]

\* C1: decoding the bytes a sender encoded succeeds, consumes all of them
\* and yields the envelope that was encoded, for every message the sender
\* can build, Unknown included.
C1_RoundTrip ==
    (pc = "decoded" /\ tamper.kind = "none")
        => /\ res.ok
           /\ res.pos = Len(wire)
           /\ SameMessage(res.val, sent)

\* C2: when one bit of the payload region of an encoded message with a
\* non-empty payload changes, decoding fails with the checksum error that
\* carries the digest of the received payload and the stored checksum; no
\* message and no error of a structural decoder comes out.
C2_ChecksumEnforced ==
    (pc = "decoded" /\ tamper.kind = "flip")
        => /\ ~res.ok
           /\ res.err.type = "InvalidChecksum"
           /\ res.err.expected = sha2_checksum(Drop(wire, 24))
           /\ res.err.actual = SubSeq(orig, 21, 24)

\* a ping whose payload, one bit changed, is still a well-formed ping, and
\* whose decoding failed
C2_Witness ==
    /\ pc = "decoded"
    /\ tamper.kind = "flip"
    /\ sent.payload.kind = "Ping"
    /\ DecodePayload(NetworkMessage_cmd(sent.payload), Drop(wire, 24)).ok
    /\ ~res.ok

\* C3: when the declared payload length exceeds MAX_VEC_SIZE, decoding
\* fails with OversizedVectorAllocation carrying the declared length and
\* MAX_VEC_SIZE, whether the checksum and the payload are present, cut
\* short or damaged.
C3_OversizedRejected ==
    (pc = "decoded" /\ tamper.kind = "length"
     /\ U32Gt(tamper.declared, MAX_VEC_SIZE))
        => /\ ~res.ok
           /\ res.err.type = "OversizedVectorAllocation"
           /\ res.err.requested = tamper.declared
           /\ res.err.max = MAX_VEC_SIZE

\* a declared length of MAX_VEC_SIZE + 1 with nothing after the length
\* field, rejected as oversized
C3_Witness ==
    /\ pc = "decoded"
    /\ tamper.kind = "length"
    /\ tamper.declared = <<61, 2305>>
    /\ tamper.keep = 0
    /\ Len(wire) = 20
    /\ ~res.ok
    /\ res.err.type = "OversizedVectorAllocation"

\* C4: a buffer holding a complete valid message and then trailing bytes
\* decodes to the message the message alone decodes to, and the bytes
\* consumed are 24 plus the declared payload length, whatever the trailing
\* bytes are and however much of the payload the structural decoder read.
C4_PartialDecode ==
    (pc = "decoded" /\ tamper.kind = "append" /\ deserialize_partial(orig).ok)
        => /\ res.ok
           /\ SameMessage(res.val, deserialize_partial(orig).val)
           /\ res.pos = 24 + DeclaredLength(wire)
           /\ res.pos = Len(orig)
           /\ Drop(wire, res.pos) = tamper.tail

\* a verack carrying a payload byte its decoder never reads, followed by
\* trailing bytes
C4_Witness ==
    /\ pc = "decoded"
    /\ tamper.kind = "append"
    /\ Len(tamper.tail) = MaxTrailing
    /\ res.ok
    /\ res.val.payload.kind = "Verack"
    /\ res.pos = 25

\* C5: a checksum-valid message from a peer whose command names no known
\* kind decodes to Unknown, and encoding the decoded envelope gives back
\* the bytes received.
C5_UnknownPassthrough ==
    (pc = "reencoded" /\ tamper.kind = "crafted"
     /\ res.val.payload.kind = "Unknown")
        => /\ rewire.ok
           /\ rewire.bytes = wire

\* the canonical names of the known kinds
KnownNames == { NetworkMessage_cmd(Msg(k, <<>>)) : k \in KnownKinds }

\* C6: for a checksum-valid message, when the decoded command is the name
\* cmd() gives some known kind, a successful decode is of that kind and
\* cmd() of the result is the command; when it is the name of no known
\* kind, the decode succeeds as Unknown holding that command and the whole
\* raw payload; Unknown never holds the name of a known kind; the 32 names
\* are distinct.
C6_DispatchAgreesWithCmd ==
    /\ Cardinality(KnownKinds) = 32
    /\ Cardinality(KnownNames) = 32
    /\ (pc = "decoded" /\ tamper.kind \in {"none", "crafted", "headers", "append"})
        => LET command == CommandString_consensus_decode(orig, 4).val
           IN /\ (command \in KnownNames /\ res.ok)
                    => /\ res.val.payload.kind \in KnownKinds
                       /\ NetworkMessage_cmd(res.val.payload) = command
              /\ (command \notin KnownNames)
                    => /\ res.ok
                       /\ res.val.payload.kind = "Unknown"
                       /\ res.val.payload.dat.command = command
                       /\ res.val.payload.dat.payload = Drop(orig, 24)
              /\ (res.ok /\ res.val.payload.kind = "Unknown")
                    => res.val.payload.dat.command \notin KnownNames

\* a peer's "tx" message, decoded as Tx
C6_Witness ==
    /\ pc = "decoded"
    /\ tamper.kind = "crafted"
    /\ CommandString_consensus_decode(orig, 4).val = <<116, 120>>
    /\ Len(orig) > 24
    /\ res.ok
    /\ res.val.payload.kind = "Tx"

\* C7: the payload of an encoded headers message of N headers is the count
\* N, then for each header in order its 80 bytes and one zero byte; a
\* headers payload from a peer fails to decode with ParseFailed("Headers
\* message should not contain transactions") when a byte after a header
\* that arrived is not zero, and decodes to the N headers in order when
\* all N arrived with a zero byte after each.
C7_HeadersMarkerRule ==
    /\ (pc = "sent" /\ tamper.kind = "none" /\ sent.payload.kind = "Headers")
        => LET hs == sent.payload.dat
               payload == Drop(wire, 24)
           IN /\ Len(payload) = 1 + 81 * Len(hs)
              /\ payload[1] = Len(hs)
              /\ \A i \in 1..Len(hs) :
                    /\ SubSeq(payload, 81 * i - 79, 81 * i)
                           = BlockHeader_consensus_encode(hs[i])
                    /\ payload[81 * i + 1] = 0
    /\ (pc = "decoded" /\ tamper.kind = "headers")
        => IF \E i \in 1..tamper.kept : tamper.markers[i] # 0
           THEN /\ ~res.ok
                /\ res.err.type = "ParseFailed"
                /\ res.err.what = "Headers message should not contain transactions"
           ELSE IF tamper.kept = Len(tamper.hs)
           THEN /\ res.ok
                /\ res.val.payload.kind = "Headers"
                /\ res.val.payload.dat = tamper.hs
           ELSE /\ ~res.ok
                /\ res.err.type = "Io"

\* headers from a peer with a zero byte after the first and a nonzero
\* byte after the second, rejected
C7_Witness ==
    /\ pc = "decoded"
    /\ tamper.kind = "headers"
    /\ tamper.kept >= 2
    /\ tamper.markers[1] = 0
    /\ tamper.markers[2] # 0
    /\ ~res.ok
    /\ res.err.type = "ParseFailed"

\* C8: the encoding of a content-free message is 24 bytes: the magic in
\* little-endian order, the name padded with zeros to 12 bytes, the length
\* 00 00 00 00 and the checksum 5d f6 e0 e2; with magic 0xd9b4bef9 a
\* verack is f9 be b4 d9 76 65 72 61 63 6b 00 .. 00 5d f6 e0 e2.
C8_ContentFreeEncoding ==
    (pc = "sent" /\ tamper.kind = "none"
     /\ sent.payload.kind \in ContentFreeKinds)
        => LET k == sent.payload.kind
               m == sent.magic
               name ==
                   CASE k = "Verack" ->
                            <<118, 101, 114, 97, 99, 107, 0, 0, 0, 0, 0, 0>>
                     [] k = "SendHeaders" ->
                            <<115, 101, 110, 100, 104, 101, 97, 100, 101, 114, 115, 0>>
                     [] k = "MemPool" ->
                            <<109, 101, 109, 112, 111, 111, 108, 0, 0, 0, 0, 0>>
                     [] k = "GetAddr" ->
                            <<103, 101, 116, 97, 100, 100, 114, 0, 0, 0, 0, 0>>
                     [] k = "WtxidRelay" ->
                            <<119, 116, 120, 105, 100, 114, 101, 108, 97, 121, 0, 0>>
                     [] k = "FilterClear" ->
                            <<102, 105, 108, 116, 101, 114, 99, 108, 101, 97, 114, 0>>
                     [] k = "SendAddrV2" ->
                            <<115, 101, 110, 100, 97, 100, 100, 114, 118, 50, 0, 0>>
           IN /\ wire = <<m[2] % 256, m[2] \div 256, m[1] % 256, m[1] \div 256>>
                        \o name \o <<0, 0, 0, 0, 93, 246, 224, 226>>
              /\ (k = "Verack" /\ m = <<55732, 48889>>)
                    => wire = <<249, 190, 180, 217, 118, 101, 114, 97, 99, 107,
                                0, 0, 0, 0, 0, 0, 0, 0, 0, 0, 93, 246, 224, 226>>

\* the verack of the main network, encoded
C8_Witness ==
    /\ pc = "sent"
    /\ tamper.kind = "none"
    /\ sent.payload.kind = "Verack"
    /\ sent.magic = <<55732, 48889>>
    /\ Len(wire) = 24

---------------------------------------------------------------------------
(* Properties of the command scenario.                                     *)

\* the bytes a text takes in UTF-8, for characters below U+0800
ByteLength(s) ==
    Len(SelectSeq(s, LAMBDA c : c < 128)) + 2 * Len(SelectSeq(s, LAMBDA c : c >= 128))

C10_LengthInvariant ==
    /\ (pc = "c_built" /\ cs.ok) => StrLen(cs.val) <= 12
    /\ (pc = "c_encoded") => csbytes.ok
    /\ (pc = "c_received" /\ csdec.ok) => StrLen(csdec.val) <= 12
    /\ (pc = "c_reencoded") => rewire.ok

\* C11: the name decoded from a 12-byte field is made of the bytes
\* 0x01..0x7f of the field, in their order; zero bytes and bytes
\* 0x80..0xff add nothing to it.
C11_DecodeFilter ==
    (pc = "c_received" /\ csdec.ok)
        => csdec.val = SelectSeq(SubSeq(wire, 1, 12), LAMBDA b : b >= 1 /\ b <= 127)

\* C12: decoding a CommandString succeeds on every input of at least 12
\* bytes, whatever the bytes are, and consumes 12 of them; on every
\* shorter input it fails, with the I/O error of the short read.
C12_FailsOnlyOnTruncation ==
    (pc = "c_received")
        => IF Len(wire) >= 12
           THEN csdec.ok /\ csdec.pos = 12
           ELSE ~csdec.ok /\ csdec.err.type = "Io"

\* a field of twelve bytes with the high bit set, accepted
C12_Witness ==
    /\ pc = "c_received"
    /\ Len(wire) = 12
    /\ \A i \in 1..12 : wire[i] = 255
    /\ csdec.ok

\* the text holds only the characters U+0001 .. U+007F
NonzeroAscii(s) == \A i \in 1..Len(s) : s[i] >= 1 /\ s[i] <= 127

\* C13 as stated: for every CommandString c built by try_from, encoding
\* gives 12 bytes, the bytes of c and then zeros, and decoding them gives
\* c again.
C13_RoundTrip_AsStated ==
    (pc = "c_decoded")
        => /\ csbytes.bytes = Utf8(cs.val) \o Rep(0, 12 - StrLen(cs.val))
           /\ Len(csbytes.bytes) = 12
           /\ csdec.ok
           /\ csdec.val = cs.val

\* C13: for every CommandString c built by try_from, encoding gives 12
\* bytes, the bytes of c and then zeros; decoding them succeeds and
\* consumes them; when c holds only characters U+0001..U+007F, the decoded
\* CommandString is c.
C13_RoundTrip ==
    (pc = "c_decoded")
        => /\ csbytes.bytes = Utf8(cs.val) \o Rep(0, 12 - StrLen(cs.val))
           /\ Len(csbytes.bytes) = 12
           /\ csdec.ok
           /\ csdec.pos = 12
           /\ NonzeroAscii(cs.val) => csdec.val = cs.val

\* a name of twelve letters, encoded and decoded to itself
C13_Witness ==
    /\ pc = "c_decoded"
    /\ Len(cs.val) = 12
    /\ NonzeroAscii(cs.val)
    /\ csdec.ok
    /\ csdec.val = cs.val

---------------------------------------------------------------------------
(* Properties of the name accessors, on the envelopes of the envelope      *)
(* scenario.                                                               *)

\* what C14 says of one envelope m
AccessorsAgree(m) ==
    LET p == m.payload
    IN /\ IF p.kind = "Unknown"
          THEN /\ NetworkMessage_cmd(p) = <<117, 110, 107, 110, 111, 119, 110>>
               /\ NetworkMessage_command(p).ok
               /\ NetworkMessage_command(p).val = p.dat.command
          ELSE /\ p.kind \in KnownKinds
               /\ DecodeArm(NetworkMessage_cmd(p)) = p.kind
               /\ NetworkMessage_command(p).ok
               /\ NetworkMessage_command(p).val = NetworkMessage_cmd(p)
       /\ ByteLength(NetworkMessage_cmd(p)) <= 12
       /\ RawNetworkMessage_cmd(m) = NetworkMessage_cmd(p)
       /\ RawNetworkMessage_command(m) = NetworkMessage_command(p)

\* C14: cmd() is "unknown" for every Unknown value and the canonical name
\* of the kind otherwise; command() is the stored CommandString for
\* Unknown and the CommandString of cmd() otherwise, and never aborts,
\* every canonical name being at most 12 bytes; the accessors of
\* RawNetworkMessage give what those of its payload give.  Stated of
\* every envelope a sender encodes and every envelope a decode returns.
C14_NameAccessors ==
    /\ (pc = "sent" /\ tamper.kind = "none") => AccessorsAgree(sent)
    /\ (pc = "decoded" /\ res.ok) => AccessorsAgree(res.val)

\* an Unknown holding "foobar12345", encoded under that command
C14_Witness ==
    /\ pc = "sent"
    /\ tamper.kind = "none"
    /\ sent.payload.kind = "Unknown"
    /\ sent.payload.dat.command = Foobar
    /\ SubSeq(wire, 5, 15) = Foobar

---------------------------------------------------------------------------
(* Properties of the headers count.                                        *)

\* the 64-bit number a exceeds the 64-bit number b
U64Gt(a, b) ==
    \E i \in 1..4 : a[i] > b[i] /\ \A j \in 1..(i - 1) : a[j] = b[j]

\* the count times 80 exceeds MAX_VEC_SIZE: the count exceeds 50000
CountTooLarge(c) == U64Gt(c, <<0, 0, 0, 50000>>)

\* the count times 80 does not fit 64 bits: the count exceeds
\* (2^64 - 1) \div 80 = 0x0333333333333333
ProductOverflows(c) == U64Gt(c, <<819, 13107, 13107, 13107>>)

\* C15 as stated: whenever the announced count times the size of a header
\* exceeds MAX_VEC_SIZE, the product that does not fit the machine word
\* included, the decode fails with OversizedVectorAllocation.
C15_CountBound_AsStated ==
    (pc = "decoded" /\ tamper.kind = "count" /\ CountTooLarge(tamper.count))
        => /\ ~res.ok
           /\ res.err.type = "OversizedVectorAllocation"
           /\ res.err.max = MAX_VEC_SIZE

\* C15: with a 64-bit machine word, when the announced count times 80
\* does not fit the word the decode fails with ParseFailed("Invalid
\* length"); when it fits and exceeds MAX_VEC_SIZE the decode fails with
\* OversizedVectorAllocation carrying the product and MAX_VEC_SIZE, no
\* header being read; otherwise exactly count headers are read: the
\* decode gives the first count headers when they are there and fails on
\* the short read when they are not.
C15_CountBound ==
    (pc = "decoded" /\ tamper.kind = "count")
        => LET c == tamper.count
               product ==
                   CASE c = <<0, 0, 0, 50001>> -> <<0, 0, 61, 2384>>
                     [] c = <<0, 0, 1, 0>> -> <<0, 0, 80, 0>>
                     [] c = <<0, 1, 0, 0>> -> <<0, 80, 0, 0>>
                     [] c = <<819, 13107, 13107, 13107>> ->
                            <<65535, 65535, 65535, 65520>>
           IN IF ProductOverflows(c)
              THEN /\ ~res.ok
                   /\ res.err.type = "ParseFailed"
                   /\ res.err.what = "Invalid length"
              ELSE IF CountTooLarge(c)
              THEN /\ ~res.ok
                   /\ res.err.type = "OversizedVectorAllocation"
                   /\ res.err.requested = product
                   /\ res.err.max = MAX_VEC_SIZE
              ELSE IF c[4] <= Len(tamper.hs)
              THEN /\ res.ok
                   /\ res.val.payload.kind = "Headers"
                   /\ res.val.payload.dat = SubSeq(tamper.hs, 1, c[4])
              ELSE /\ ~res.ok
                   /\ res.err.type = "Io"

\* a count of 50001 with headers behind it, refused as oversized
C15_Witness ==
    /\ pc = "decoded"
    /\ tamper.kind = "count"
    /\ tamper.count = <<0, 0, 0, 50001>>
    /\ Len(tamper.hs) >= 2
    /\ ~res.ok
    /\ res.err.type = "OversizedVectorAllocation"

---------------------------------------------------------------------------
(* Properties of the payload boundary.                                     *)

\* two decode results agree: both succeed with the same message and the
\* same position, or both fail with the same error
SameResult(a, b) ==
    /\ a.ok = b.ok
    /\ a.ok => SameMessage(a.val, b.val) /\ a.pos = b.pos
    /\ ~a.ok => a.err.type = b.err.type /\ a.err = b.err

\* the payload of the envelope env is too short for the structure its
\* command selects: the checksum container is valid and the decoder of
\* the arm runs out of bytes
PayloadTooShort(env) ==
    /\ Len(env) >= 24
    /\ CheckedData_consensus_decode(env, 16).ok
    /\ LET d == DecodePayload(CommandString_consensus_decode(env, 4).val,
                              Drop(env, 24))
       IN ~d.ok /\ d.err.type = "Io"

\* C16: when bytes follow a checksum-valid envelope in the stream, the
\* decode is the decode of the envelope alone whatever the bytes that
\* follow are, and when the payload is too short for the structure its
\* command selects the decode fails on the short read.
C16_BoundaryIsolation ==
    (pc = "decoded" /\ tamper.kind = "append")
        => /\ SameResult(res, deserialize_partial(orig))
           /\ \A t \in TrailingBytes :
                 SameResult(res, deserialize_partial(orig \o t))
           /\ PayloadTooShort(orig) => ~res.ok /\ res.err.type = "Io"

\* a payload too short for its structure, followed in the stream by bytes
\* that would complete the structure
C16_Witness ==
    /\ pc = "decoded"
    /\ tamper.kind = "append"
    /\ PayloadTooShort(orig)
    /\ DecodePayload(CommandString_consensus_decode(wire, 4).val,
                     Drop(wire, 24)).ok
    /\ ~res.ok

\* the first k bytes of the payload of the envelope env are a complete
\* structure of the known kind its command selects
CompleteAt(env, k) ==
    LET cmd == CommandString_consensus_decode(env, 4).val
        d == DecodePayload(cmd, SubSeq(env, 25, 24 + k))
    IN /\ DecodeArm(cmd) # "Unknown"
       /\ d.ok
       /\ d.pos = k

\* C17: a checksum-valid message from a peer with a known command, whose
\* payload is a complete structure followed by extra bytes (for a
\* content-free command: any non-empty payload), decodes to the message
\* the envelope without the extra bytes decodes to, and the decode
\* consumes the whole envelope.
C17_SurplusIgnored ==
    (pc = "decoded" /\ tamper.kind = "crafted")
        => \A k \in 0..(Len(orig) - 25) :
              CompleteAt(orig, k)
                 => LET short == Envelope(u32_consensus_decode(orig, 0).val,
                                          SubSeq(orig, 5, 16),
                                          SubSeq(orig, 25, 24 + k))
                        d == deserialize(short)
                    IN /\ d.ok
                       /\ res.ok
                       /\ SameMessage(res.val, d.val)
                       /\ res.pos = Len(orig)
                       /\ (DecodeArm(CommandString_consensus_decode(orig, 4).val)
                              \in ContentFreeKinds)
                             => res.val.payload = Msg(res.val.payload.kind, <<>>)

\* a ping whose payload is the 8 bytes of a nonce and then 39 bytes more
C17_Witness ==
    /\ pc = "decoded"
    /\ tamper.kind = "crafted"
    /\ Len(orig) = 24 + 47
    /\ CompleteAt(orig, 8)
    /\ res.ok
    /\ res.val.payload = Msg("Ping", <<257, 257, 257, 257>>)

---------------------------------------------------------------------------
(* Properties of the reject-reason scenario.                               *)

\* the codes of the eight reasons, as the enum declares them
ReasonCodes ==
    [Malformed |-> 1, Invalid |-> 16, Obsolete |-> 17, Duplicate |-> 18,
     NonStandard |-> 64, Dust |-> 65, Fee |-> 66, Checkpoint |-> 67]

\* C18: encoding a RejectReason writes one byte, its code (0x01, 0x10,
\* 0x11, 0x12, 0x40, 0x41, 0x42, 0x43), and reports 1 byte written;
\* decoding that byte gives the reason back; decoding any of the other 248
\* byte values fails with ParseFailed("unknown reject code").
C18_RejectReasonCodec ==
    /\ pc \in {"r_encoded", "r_decoded"}
          => /\ rbytes.bytes = <<ReasonCodes[rreason]>>
             /\ rbytes.len = 1
    /\ pc = "r_decoded"
          => /\ rdec.ok
             /\ rdec.val = rreason
             /\ rdec.pos = 1
    /\ (pc = "r_received" /\ wire # <<>>)
          => IF \E r \in DOMAIN ReasonCodes : ReasonCodes[r] = wire[1]
             THEN /\ rdec.ok
                  /\ ReasonCodes[rdec.val] = wire[1]
                  /\ rdec.pos = 1
             ELSE /\ ~rdec.ok
                  /\ rdec.err.type = "ParseFailed"
                  /\ rdec.err.what = "unknown reject code"
    /\ Cardinality({ b \in 0..255 :
                       ~RejectReason_consensus_decode(<<b>>, 0).ok }) = 248

\* the reason Checkpoint, encoded as 0x43 and decoded
C18_Witness ==
    /\ pc = "r_decoded"
    /\ rreason = "Checkpoint"
    /\ rbytes.bytes = <<67>>
    /\ rdec.ok
    /\ rdec.val = "Checkpoint"

===========================================================================
